---- MODULE Spec2Model ----
(***************************************************************************)
(* AlphaCouncil: the staged analysis workflow of src/App.tsx and the       *)
(* localStorage persistence of src/lib/storage.ts (current-run snapshot    *)
(* and history ledger).                                                    *)
(*                                                                         *)
(* JavaScript strings that the code takes apart (the stock symbol) are     *)
(* sequences of one-character strings; '' is <<>>.  A JavaScript object    *)
(* used as a mapping ({} included) is a function; {} is <<>>.              *)
(***************************************************************************)
EXTENDS Integers, Sequences, FiniteSets, TLC

VARIABLES
    state,      \* App.tsx:22   the React WorkflowState
    history,    \* App.tsx:23   the history panel's list
    runs,       \* App.tsx:66   the handleAnalyze invocations (closure, await position)
    snapshot,   \* localStorage[STORAGE_KEY]
    ledger,     \* localStorage[HISTORY_KEY]
    now,        \* Date.now(), in ms since the model's epoch
    ret,        \* the value the last storage call returned to its caller
    evt,        \* the last operation and its inputs (observation only)
    used        \* how much of the model's bounds the behaviour has used

vars == <<state, history, runs, snapshot, ledger, now, ret, evt, used>>

(***************************************************************************)
(* Program constants                                                       *)
(***************************************************************************)
STORAGE_VERSION == "v1"
DATA_EXPIRY_MS == 30 * 60 * 1000
HISTORY_LIMIT == 50

IDLE == "IDLE"
FETCHING_DATA == "FETCHING_DATA"
RUNNING == "RUNNING"
COMPLETED == "COMPLETED"
ERROR == "ERROR"
AnalysisStatus == {IDLE, FETCHING_DATA, RUNNING, COMPLETED, ERROR}

\* the value of an absent optional string (state.error)
Undefined == "undefined"
\* localStorage.getItem of a key that is not stored
NoItem == [kind |-> "none"]
\* a stored string JSON.parse throws on
Malformed == [kind |-> "malformed"]
\* the result of loadState when there is nothing to restore
Null == [kind |-> "null"]

AnalystRoles == {"MACRO", "INDUSTRY", "TECHNICAL", "FUNDS", "FUNDAMENTAL"}
ManagerRoles == {"MANAGER_FUNDAMENTAL", "MANAGER_MOMENTUM"}
RiskRoles == {"RISK_SYSTEM", "RISK_PORTFOLIO"}
GM == "GM"
AgentRole == AnalystRoles \cup ManagerRoles \cup RiskRoles \cup {GM}

StageRoles(k) ==
    CASE k = 1 -> AnalystRoles
      [] k = 2 -> ManagerRoles
      [] k = 3 -> RiskRoles
      [] k = 4 -> {GM}

\* DEFAULT_AGENTS: every role with its default parameters
DEFAULT_AGENTS == [r \in AgentRole |-> "default"]
\* JSON.parse(JSON.stringify(DEFAULT_AGENTS)): a fresh, equal copy
CopyOfDefaults == [r \in DOMAIN DEFAULT_AGENTS |-> DEFAULT_AGENTS[r]]

(***************************************************************************)
(* Strings                                                                 *)
(***************************************************************************)
Digits == {"0", "1", "2", "3", "4", "5", "6", "7", "8", "9"}
Whitespace == {" "}

ToLowerChar(c) ==
    CASE c = "S" -> "s"
      [] c = "H" -> "h"
      [] c = "Z" -> "z"
      [] c = "A" -> "a"
      [] OTHER -> c

toLowerCase(s) == [i \in 1..Len(s) |-> ToLowerChar(s[i])]

RECURSIVE trimStart(_)
trimStart(s) ==
    IF s # <<>> /\ Head(s) \in Whitespace THEN trimStart(Tail(s)) ELSE s

RECURSIVE trimEnd(_)
trimEnd(s) ==
    IF s # <<>> /\ s[Len(s)] \in Whitespace
    THEN trimEnd(SubSeq(s, 1, Len(s) - 1))
    ELSE s

trim(s) == trimEnd(trimStart(s))

startsWith(s, p) == Len(s) >= Len(p) /\ SubSeq(s, 1, Len(p)) = p

\* s.substring(n)
substring(s, n) == SubSeq(s, n + 1, Len(s))

\* /^\d{6}$/.test(s)
SixDigits(s) == Len(s) = 6 /\ \A i \in 1..6 : s[i] \in Digits

\* text.includes(marker); a text is the sequence of its phrases
includes(text, marker) == \E i \in 1..Len(text) : text[i] = marker

(***************************************************************************)
(* validateStockCode                                                       *)
(***************************************************************************)
MSG_FORMAT == "MSG_FORMAT_AFTER_PREFIX"
MSG_LENGTH == "MSG_SIX_DIGITS"
MSG_MARKET == "MSG_NOT_A_SHARE_CODE"
AllowedFirstDigits == {"0", "1", "2", "3", "6", "8", "9"}

\* validateStockCodeNoPrefix if it did not look at the first digit
validateAnySixDigits(code) ==
    IF ~SixDigits(code)
    THEN [valid |-> FALSE, message |-> MSG_LENGTH]
    ELSE [valid |-> TRUE, message |-> Undefined]

validateStockCodeNoPrefix(code) ==
    IF ~SixDigits(code)
    THEN [valid |-> FALSE, message |-> MSG_LENGTH]
    ELSE IF code[1] \notin AllowedFirstDigits
    THEN [valid |-> FALSE, message |-> MSG_MARKET]
    ELSE [valid |-> TRUE, message |-> Undefined]

validateStockCode(symbol) ==
    LET code == toLowerCase(trim(symbol)) IN
    IF startsWith(code, <<"s", "h">>) \/ startsWith(code, <<"s", "z">>)
    THEN IF ~SixDigits(substring(code, 2))
         THEN [valid |-> FALSE, message |-> MSG_FORMAT]
         ELSE [valid |-> TRUE, message |-> Undefined]
    ELSE validateStockCodeNoPrefix(code)

(***************************************************************************)
(* localStorage and JSON                                                   *)
(*                                                                         *)
(* A stored item is NoItem, Malformed, or the text JSON.stringify made of  *)
(* a value.  A call's `fail` input is how localStorage behaves during the  *)
(* call: "none" (it works), "quota" (setItem throws) or "denied" (every    *)
(* access throws).                                                         *)
(***************************************************************************)
StorageFailures == {"none", "quota", "denied"}

\* the members of an object that may hold undefined: JSON.stringify omits them
OptionalStrings == {"error"}

JSONobject(obj) ==
    [k \in {m \in DOMAIN obj : ~(m \in OptionalStrings /\ obj[m] = Undefined)} |-> obj[k]]

JSONstringify(v) == [kind |-> "json", value |-> v]
\* JSON.parse throws unless CanParse
CanParse(raw) == raw.kind = "json"
JSONparse(raw) == raw.value

\* setItem if a write that failed left nothing stored
setItemDropsOnFailure(store, text, fail) == IF fail = "none" THEN text ELSE NoItem

setItem(store, text, fail) == IF fail = "none" THEN text ELSE store
removeItem(store, fail) == IF fail = "denied" THEN store ELSE NoItem

(***************************************************************************)
(* Durable state store: saveState, loadState, clearState, getInitialState  *)
(***************************************************************************)
\* PersistedFields without the reference data
PersistedWithoutContext(st) ==
    [status |-> st.status,
     currentStep |-> st.currentStep,
     stockSymbol |-> st.stockSymbol,
     outputs |-> st.outputs,
     agentConfigs |-> st.agentConfigs]

\* PersistedFields if the whole state were stored
PersistedWholeState(st) == st

PersistedFields(st) ==
    [status |-> st.status,
     currentStep |-> st.currentStep,
     stockSymbol |-> st.stockSymbol,
     stockDataContext |-> st.stockDataContext,
     outputs |-> st.outputs,
     agentConfigs |-> st.agentConfigs]

saveState(st, store, t, fail) ==
    LET persisted == [version |-> STORAGE_VERSION,
                      timestamp |-> t,
                      state |-> JSONobject(PersistedFields(st))]
    IN setItem(store, JSONstringify(persisted), fail)

\* Expired if the threshold itself counted as expired
ExpiredAtThreshold(age) == age >= DATA_EXPIRY_MS

Expired(age) == age > DATA_EXPIRY_MS

\* loadState if it also removed an item it cannot parse
loadStateDropsMalformed(store, t, fail) ==
    IF fail = "denied" THEN [store |-> store, ret |-> Null]
    ELSE IF store.kind = "none" THEN [store |-> store, ret |-> Null]
    ELSE IF ~CanParse(store) THEN [store |-> removeItem(store, fail), ret |-> Null]
    ELSE LET persisted == JSONparse(store) IN
         IF persisted.version # STORAGE_VERSION \/ Expired(t - persisted.timestamp)
         THEN [store |-> removeItem(store, fail), ret |-> Null]
         ELSE [store |-> store, ret |-> persisted.state]

\* the stored item afterwards, and the value returned
loadState(store, t, fail) ==
    IF fail = "denied" THEN [store |-> store, ret |-> Null]
    ELSE IF store.kind = "none" THEN [store |-> store, ret |-> Null]
    ELSE IF ~CanParse(store) THEN [store |-> store, ret |-> Null]
    ELSE LET persisted == JSONparse(store) IN
         IF persisted.version # STORAGE_VERSION
         THEN [store |-> removeItem(store, fail), ret |-> Null]
         ELSE IF Expired(t - persisted.timestamp)
         THEN [store |-> removeItem(store, fail), ret |-> Null]
         ELSE [store |-> store, ret |-> persisted.state]

clearState(store, fail) == removeItem(store, fail)

\* persisted?.field ?? default
OrElse(persisted, field, default) ==
    IF field \in DOMAIN persisted THEN persisted[field] ELSE default

InitialApiKeys == << >>

StateFrom(persisted) ==
    [status |-> OrElse(persisted, "status", IDLE),
     currentStep |-> OrElse(persisted, "currentStep", 0),
     stockSymbol |-> OrElse(persisted, "stockSymbol", << >>),
     stockDataContext |-> OrElse(persisted, "stockDataContext", << >>),
     outputs |-> OrElse(persisted, "outputs", << >>),
     agentConfigs |-> OrElse(persisted, "agentConfigs", CopyOfDefaults),
     apiKeys |-> InitialApiKeys,
     error |-> Undefined]

getInitialState(store, t, fail) ==
    LET l == loadState(store, t, fail) IN
    [store |-> l.store, ret |-> StateFrom(l.ret)]

(***************************************************************************)
(* History ledger: getHistory, saveToHistory, deleteFromHistory,           *)
(* clearHistory, restoreFromHistory                                        *)
(***************************************************************************)
\* the place of item x in the descending list s, after every item at least as recent
\* SortByTimestamp if the items were returned in the order stored
AsStored(items) == items

\* items.sort((a, b) => b.timestamp - a.timestamp): stable, most recent first;
\* an item's place is one more than the number of items that go before it
\* (SubSeq: each place is computed once; a list in order is its own sort)
SortByTimestamp(items) ==
    LET n == Len(items)
        Before(i, j) ==
            \/ items[i].timestamp > items[j].timestamp
            \/ items[i].timestamp = items[j].timestamp /\ i < j
        place == SubSeq([i \in 1..n |-> 1 + Cardinality({j \in 1..n : Before(j, i)})], 1, n)
        from == SubSeq([k \in 1..n |-> CHOOSE i \in 1..n : place[i] = k], 1, n)
        inOrder == \A i \in 1..(n - 1) : items[i].timestamp >= items[i + 1].timestamp
    IN IF inOrder THEN items ELSE SubSeq([k \in 1..n |-> items[from[k]]], 1, n)

getHistory(store, fail) ==
    IF fail = "denied" THEN [store |-> store, ret |-> << >>]
    ELSE IF store.kind = "none" THEN [store |-> store, ret |-> << >>]
    ELSE IF ~CanParse(store) THEN [store |-> store, ret |-> << >>]
    ELSE LET data == JSONparse(store) IN
         IF data.version # STORAGE_VERSION
         THEN [store |-> removeItem(store, fail), ret |-> << >>]
         ELSE [store |-> store, ret |-> SortByTimestamp(data.items)]

MARK_BUY == "MARK_BUY"
MARK_SELL == "MARK_SELL"
MARK_HOLD == "MARK_HOLD"
LABEL_BUY == "LABEL_BUY"
LABEL_SELL == "LABEL_SELL"
LABEL_HOLD == "LABEL_HOLD"
LABEL_ANALYZING == "LABEL_ANALYZING"

gmDecisionOf(outputs) ==
    LET gmOutput == IF GM \in DOMAIN outputs THEN outputs[GM] ELSE << >> IN
    IF includes(gmOutput, MARK_BUY) THEN LABEL_BUY
    ELSE IF includes(gmOutput, MARK_SELL) THEN LABEL_SELL
    ELSE IF includes(gmOutput, MARK_HOLD) THEN LABEL_HOLD
    ELSE LABEL_ANALYZING

\* `${state.stockSymbol}-${Date.now()}`
ItemId(symbol, t) == <<symbol, t>>

\* completedAt is undefined unless the run is completed, and JSON.stringify omits it
NewItem(st, t) ==
    LET base == [id |-> ItemId(st.stockSymbol, t),
                 stockSymbol |-> st.stockSymbol,
                 status |-> st.status,
                 currentStep |-> st.currentStep,
                 timestamp |-> t,
                 gmDecision |-> gmDecisionOf(st.outputs),
                 outputs |-> st.outputs]
    IN IF st.status = COMPLETED THEN base @@ [completedAt |-> t] ELSE base

Replaceable(item, st) ==
    item.stockSymbol = st.stockSymbol /\ item.status # COMPLETED

\* findIndex if it never found a record to replace
findIndexNone(hist, st) == 0

\* history.findIndex(...): 0 here where the code has -1
findIndex(hist, st) ==
    IF \E i \in 1..Len(hist) : Replaceable(hist[i], st)
    THEN CHOOSE i \in 1..Len(hist) :
            /\ Replaceable(hist[i], st)
            /\ \A j \in 1..(i - 1) : ~Replaceable(hist[j], st)
    ELSE 0

\* Trimmed without the slice
Untrimmed(hist) == hist

\* history.slice(0, 50)
Trimmed(hist) ==
    SubSeq(hist, 1, IF Len(hist) < HISTORY_LIMIT THEN Len(hist) ELSE HISTORY_LIMIT)

\* Inserted if every record went in front as a new entry
InsertedInFront(hist, st, t) == <<NewItem(st, t)>> \o hist

Inserted(hist, st, t) ==
    LET existingIndex == findIndex(hist, st) IN
    IF existingIndex >= 1
    THEN [hist EXCEPT ![existingIndex] = NewItem(st, t)]
    ELSE <<NewItem(st, t)>> \o hist

HistoryStorage(items) == [version |-> STORAGE_VERSION, items |-> items]

saveToHistory(st, store, t, fail) ==
    LET h == getHistory(store, fail)
        trimmed == Trimmed(Inserted(h.ret, st, t))
    IN setItem(h.store, JSONstringify(HistoryStorage(trimmed)), fail)

Filtered(hist, id) == SelectSeq(hist, LAMBDA item : item.id # id)

deleteFromHistory(id, store, fail) ==
    LET h == getHistory(store, fail) IN
    setItem(h.store, JSONstringify(HistoryStorage(Filtered(h.ret, id))), fail)

clearHistory(store, fail) == removeItem(store, fail)

restoreFromHistory(item) ==
    [stockSymbol |-> item.stockSymbol,
     status |-> item.status,
     currentStep |-> item.currentStep,
     outputs |-> item.outputs,
     stockDataContext |-> << >>,
     agentConfigs |-> CopyOfDefaults,
     apiKeys |-> << >>]

(***************************************************************************)
(* Inputs of the model                                                     *)
(***************************************************************************)
MaxRuns == 2
MaxAppRuns == 1
MaxLiveRuns == 1
MaxTicks == 1
MaxReloads == 1
MaxOps == 2

\* the handleAnalyze invocations in flight at one time: the one the page shows and
\* one abandoned by a reset or a restore
RunIds == {1, 2}

SYM_PLAIN == <<"6", "0", "0", "5", "1", "9">>
SYM_PREFIXED == <<" ", "S", "Z", "0", "0", "0", "0", "0", "1">>
SYM_SHORT == <<"6", "0", "0", "5", "1">>
SYM_LETTER == <<"6", "0", "0", "5", "1", "a">>
SYM_MARKET == <<"4", "0", "0", "0", "0", "1">>
SYM_BAD_SUFFIX == <<"s", "h", "6", "0", "0", "5", "1">>
SYM_LONG_SUFFIX == <<"S", "H", "6", "0", "0", "5", "1", "9", "0">>
SYM_EMPTY == << >>

ValidSymbols == {SYM_PREFIXED}
InvalidSymbols == {SYM_SHORT, SYM_MARKET, SYM_BAD_SUFFIX}
SymbolInputs == ValidSymbols \cup InvalidSymbols
AllSymbolInputs == SymbolInputs \cup {SYM_PLAIN, SYM_LETTER, SYM_LONG_SUFFIX, SYM_EMPTY}

ApiKeyInputs == {[juhe |-> "SECRET"]}

\* what fetchStockData resolves to
StockDataInputs == {"null", "QUOTE"}
\* formatStockDataForPrompt
formatStockDataForPrompt(stockData) == <<"CONTEXT", stockData>>

\* what the agents of stage k write during run r: the phrases of the text
TextOfRun(n) ==
    CASE n = 1 -> <<"TEXT OF RUN 1">>
      [] n = 2 -> <<"TEXT OF RUN 2">>
      [] n = 3 -> <<"TEXT OF RUN 3">>
      [] OTHER -> <<"TEXT OF A LATER RUN">>
TextInputs(n) == {TextOfRun(n)}

\* what an awaited call throws: an Error with its message, or some other value
ThrownInputs ==
    {[isError |-> TRUE, message |-> "boom"],
     [isError |-> TRUE, message |-> ""],
     [isError |-> FALSE, message |-> "not an Error"]}

ConfigRoleInputs == {GM}
ConfigInputs == {"default", "custom"}

MSG_NO_DATA == "MSG_NO_DATA"
MSG_UNKNOWN == "MSG_UNKNOWN_ERROR"

(***************************************************************************)
(* The workflow engine of App.tsx                                          *)
(*                                                                         *)
(* A run is one invocation of handleAnalyze: its arguments, the `state`    *)
(* of the render it was called from (its closure), its local variables and *)
(* the call it awaits (0: fetchStockData, 1..4: the stage executors).      *)
(* calls, results, trace, alone, end and thrown observe the run: the       *)
(* executor calls it made, the results it got, the currentStep the page    *)
(* showed after each of its updates, whether anything else touched the     *)
(* state while it ran, and how it ended.                                   *)
(***************************************************************************)
\* { ...a, ...b }
Spread(a, b) ==
    [x \in DOMAIN a \cup DOMAIN b |-> IF x \in DOMAIN b THEN b[x] ELSE a[x]]

FreeRun ==
    [pc |-> "free", await |-> 0, ordinal |-> 0,
     symbol |-> << >>, apiKeys |-> << >>,
     agentConfigs |-> << >>, outputs |-> << >>,
     stockDataContext |-> << >>, acc |-> << >>,
     calls |-> << >>, results |-> << >>, trace |-> << >>,
     alone |-> TRUE, end |-> "none", thrown |-> Null]

InFlight(r) == runs[r].pc = "await"

\* a reset, a restore or another start: the runs in flight are no longer alone, and
\* the observations of the runs that ended are dropped
Disturbed(rs) ==
    [r \in RunIds |-> IF rs[r].pc = "await" THEN [rs[r] EXCEPT !.alone = FALSE] ELSE FreeRun]

\* AutoSave if it saved at every status
AutoSaveAlways(st, store, fail) == saveState(st, store, now, fail)

\* useEffect(..., [state]): the automatic save after a render
AutoSave(st, store, fail) ==
    IF st.status # IDLE THEN saveState(st, store, now, fail) ELSE store

\* HistorySave if the effect never ran
HistorySaveNever(prevStatus, st, store, fail) == store

\* useEffect(..., [state.status]): the history save after a render that changed the status
HistorySave(prevStatus, st, store, fail) ==
    IF prevStatus # st.status /\ st.status = COMPLETED /\ st.stockSymbol # << >>
    THEN saveToHistory(st, store, now, fail)
    ELSE store

\* the render after setState(next), with its effects
Render(next, fail) ==
    /\ state' = next
    /\ snapshot' = AutoSave(next, snapshot, fail)
    /\ ledger' = HistorySave(state.status, next, ledger, fail)

\* the updaters handleAnalyze passes to setState
ValidationFailed(prev, message) ==
    [prev EXCEPT !.status = ERROR, !.error = message]

\* Started if it did not empty the outputs
StartedKeepsOutputs(prev, symbol, apiKeys) ==
    [prev EXCEPT !.status = FETCHING_DATA,
                 !.currentStep = 0,
                 !.stockSymbol = symbol,
                 !.apiKeys = apiKeys,
                 !.error = Undefined]

Started(prev, symbol, apiKeys) ==
    [prev EXCEPT !.status = FETCHING_DATA,
                 !.currentStep = 0,
                 !.stockSymbol = symbol,
                 !.outputs = << >>,
                 !.apiKeys = apiKeys,
                 !.error = Undefined]

\* NoData if it set the message and left the status
NoDataKeepsStatus(prev) == [prev EXCEPT !.error = MSG_NO_DATA]

NoData(prev) == [prev EXCEPT !.status = ERROR, !.error = MSG_NO_DATA]

Fetched(prev, ctx) ==
    [prev EXCEPT !.status = RUNNING, !.currentStep = 1, !.stockDataContext = ctx]

\* StageDone if it took the results of the stage for the outputs: outputs: result
StageDoneReplacesOutputs(prev, k, result) ==
    IF k < 4
    THEN [prev EXCEPT !.currentStep = k + 1, !.outputs = result]
    ELSE [prev EXCEPT !.status = COMPLETED, !.currentStep = 5, !.outputs = result]

\* StageDone if a fold before stage 4 did not advance currentStep
StageDoneKeepsStep(prev, k, result) ==
    IF k < 4
    THEN [prev EXCEPT !.outputs = Spread(@, result)]
    ELSE [prev EXCEPT !.status = COMPLETED, !.currentStep = 5, !.outputs = Spread(@, result)]

StageDone(prev, k, result) ==
    IF k < 4
    THEN [prev EXCEPT !.currentStep = k + 1, !.outputs = Spread(@, result)]
    ELSE [prev EXCEPT !.status = COMPLETED, !.currentStep = 5, !.outputs = Spread(@, result)]

\* CaughtMessage if the catch block showed the diagnostic message of the fetch
CaughtMessageIsDiagnostic(thrown) == MSG_NO_DATA

\* error instanceof Error ? error.message : <the fallback>
CaughtMessage(thrown) == IF thrown.isError THEN thrown.message ELSE MSG_UNKNOWN

\* Caught if the catch block set the message and left the status
CaughtKeepsStatus(prev, thrown) == [prev EXCEPT !.error = CaughtMessage(thrown)]

Caught(prev, thrown) ==
    [prev EXCEPT !.status = ERROR, !.error = CaughtMessage(thrown)]

\* ResetState if the reset put the agents back to the defaults
ResetStateToDefaults(prev) ==
    [status |-> IDLE, currentStep |-> 0, stockSymbol |-> << >>,
     stockDataContext |-> << >>, outputs |-> << >>,
     agentConfigs |-> CopyOfDefaults, apiKeys |-> prev.apiKeys,
     error |-> Undefined]

ResetState(prev) ==
    [status |-> IDLE, currentStep |-> 0, stockSymbol |-> << >>,
     stockDataContext |-> << >>, outputs |-> << >>,
     agentConfigs |-> prev.agentConfigs, apiKeys |-> prev.apiKeys,
     error |-> Undefined]

\* the handler has no guard of its own; the cards it is passed to are given
\* isConfigMode only while the status is IDLE
handleConfigChange(role, newConfig, fail) ==
    /\ Render([state EXCEPT !.agentConfigs = Spread(@, [x \in {role} |-> newConfig])], fail)
    /\ evt' = [op |-> "handleConfigChange", fail |-> fail, arg |-> << >>]
    /\ UNCHANGED <<history, runs, now, ret, used>>

StartedRun(symbol, apiKeys) ==
    [FreeRun EXCEPT !.pc = "await", !.await = 0, !.ordinal = used.runs + 1,
                    !.symbol = symbol, !.apiKeys = apiKeys,
                    !.agentConfigs = state.agentConfigs,
                    !.outputs = state.outputs,
                    !.alone = \A q \in RunIds : ~InFlight(q)]

\* the page shows the input only while the status is IDLE; r is the run's place in runs
handleAnalyze(r, symbol, apiKeys, fail) ==
    /\ state.status = IDLE
    /\ ~InFlight(r)
    /\ \A q \in RunIds : q < r => InFlight(q)
    /\ LET validation == validateStockCode(symbol) IN
       IF ~validation.valid
       THEN /\ Render(ValidationFailed(state, validation.message), fail)
            /\ runs' = runs
       ELSE /\ Render(Started(state, symbol, apiKeys), fail)
            /\ runs' = [Disturbed(runs) EXCEPT
                          ![r] = [StartedRun(symbol, apiKeys) EXCEPT
                                    !.trace = <<state'.currentStep>>]]
    /\ used' = [used EXCEPT !.runs = @ + 1]
    /\ evt' = [op |-> "handleAnalyze", fail |-> fail, arg |-> symbol]
    /\ UNCHANGED <<history, now, ret>>

\* the arguments a stage executor is called with
Call(k, run, prior, ctx) ==
    [stage |-> k, symbol |-> run.symbol, outputs |-> prior,
     agentConfigs |-> run.agentConfigs, apiKeys |-> run.apiKeys,
     stockDataContext |-> ctx]

\* await fetchStockData(...) resolves
FetchResolves(r, stockData, fail) ==
    /\ InFlight(r) /\ runs[r].await = 0
    /\ IF stockData = "null"
       THEN /\ Render(NoData(state), fail)
            /\ runs' = [runs EXCEPT ![r].pc = "done", ![r].end = "nodata",
                                    ![r].trace = Append(@, state'.currentStep)]
       ELSE LET ctx == formatStockDataForPrompt(stockData) IN
            /\ Render(Fetched(state, ctx), fail)
            /\ runs' = [runs EXCEPT ![r].await = 1,
                                    ![r].stockDataContext = ctx,
                                    ![r].calls = Append(@, Call(1, runs[r], << >>, ctx)),
                                    ![r].trace = Append(@, state'.currentStep)]
    /\ evt' = [op |-> "FetchResolves", fail |-> fail, arg |-> r]
    /\ UNCHANGED <<history, now, ret, used>>

\* outputsAfterStep1 / 2 / 3
OutputsAfterStep(k, run, result) ==
    IF k = 1 THEN Spread(run.outputs, result) ELSE Spread(run.acc, result)

\* the await of stage runs[r].await resolves
StageResolves(r, text, fail) ==
    /\ InFlight(r) /\ runs[r].await \in 1..4
    /\ LET k == runs[r].await
           result == [role \in StageRoles(k) |-> text]
           after == OutputsAfterStep(k, runs[r], result)
       IN /\ Render(StageDone(state, k, result), fail)
          /\ IF k < 4
             THEN runs' = [runs EXCEPT ![r].await = k + 1,
                                       ![r].acc = after,
                                       ![r].results = Append(@, result),
                                       ![r].calls = Append(@, Call(k + 1, runs[r], after,
                                                              runs[r].stockDataContext)),
                                       ![r].trace = Append(@, state'.currentStep)]
             ELSE runs' = [runs EXCEPT ![r].pc = "done", ![r].end = "completed",
                                       ![r].results = Append(@, result),
                                       ![r].trace = Append(@, state'.currentStep)]
    /\ evt' = [op |-> "StageResolves", fail |-> fail, arg |-> r]
    /\ UNCHANGED <<history, now, ret, used>>

\* the awaited call throws: the catch block
AwaitThrows(r, thrown, fail) ==
    /\ InFlight(r)
    /\ Render(Caught(state, thrown), fail)
    /\ runs' = [runs EXCEPT ![r].pc = "done", ![r].end = "thrown", ![r].thrown = thrown,
                            ![r].trace = Append(@, state'.currentStep)]
    /\ evt' = [op |-> "AwaitThrows", fail |-> fail, arg |-> r]
    /\ UNCHANGED <<history, now, ret, used>>

\* the page shows the reset button unless the status is IDLE
reset(fail) ==
    /\ state.status # IDLE
    /\ state' = ResetState(state)
    /\ snapshot' = AutoSave(state', clearState(snapshot, fail), fail)
    /\ ledger' = HistorySave(state.status, state', ledger, fail)
    /\ runs' = Disturbed(runs)
    /\ evt' = [op |-> "reset", fail |-> fail, arg |-> << >>]
    /\ UNCHANGED <<history, now, ret, used>>

\* loadHistory: setHistory(getHistory())
loadHistory(store, fail) == getHistory(store, fail)

handleOpenHistory(fail) ==
    /\ LET h == loadHistory(ledger, fail) IN
       /\ history' = h.ret
       /\ ledger' = h.store
    /\ evt' = [op |-> "handleOpenHistory", fail |-> fail, arg |-> << >>]
    /\ UNCHANGED <<state, runs, snapshot, now, ret, used>>

handleRestoreFromHistory(i, fail) ==
    /\ i \in 1..Len(history)
    /\ LET restored == restoreFromHistory(history[i]) IN
       Render([status |-> IDLE, currentStep |-> 0,
               stockSymbol |-> restored.stockSymbol,
               stockDataContext |-> << >>,
               outputs |-> restored.outputs,
               agentConfigs |-> restored.agentConfigs,
               apiKeys |-> << >>,
               error |-> Undefined], fail)
    /\ runs' = Disturbed(runs)
    /\ evt' = [op |-> "handleRestoreFromHistory", fail |-> fail, arg |-> << >>]
    /\ UNCHANGED <<history, now, ret, used>>

handleDeleteHistory(i, fail) ==
    /\ used.ops < MaxOps
    /\ i \in 1..Len(history)
    /\ LET h == loadHistory(deleteFromHistory(history[i].id, ledger, fail), fail) IN
       /\ history' = h.ret
       /\ ledger' = h.store
    /\ used' = [used EXCEPT !.ops = @ + 1]
    /\ evt' = [op |-> "handleDeleteHistory", fail |-> fail, arg |-> << >>]
    /\ UNCHANGED <<state, runs, snapshot, now, ret>>

handleClearHistory(fail) ==
    /\ used.ops < MaxOps
    /\ history # << >>
    /\ LET h == loadHistory(clearHistory(ledger, fail), fail) IN
       /\ history' = h.ret
       /\ ledger' = h.store
    /\ used' = [used EXCEPT !.ops = @ + 1]
    /\ evt' = [op |-> "handleClearHistory", fail |-> fail, arg |-> << >>]
    /\ UNCHANGED <<state, runs, snapshot, now, ret>>

\* the effects of the mount, at time t
MountSave(st, store, t, fail) ==
    IF st.status # IDLE THEN saveState(st, store, t, fail) ELSE store

MountHistorySave(st, store, t, fail) ==
    IF st.status = COMPLETED /\ st.stockSymbol # << >>
    THEN saveToHistory(st, store, t, fail)
    ELSE store

\* the page is closed and, d ms later, loaded again: useState(getInitialState), then
\* the effects of the mount; the runs that were in flight are gone with the page
Reload(d, fail) ==
    /\ used.reloads < MaxReloads
    /\ now' = now + d
    /\ LET seed == getInitialState(snapshot, now', fail) IN
       /\ state' = seed.ret
       /\ snapshot' = MountSave(seed.ret, seed.store, now', fail)
       /\ ledger' = MountHistorySave(seed.ret, ledger, now', fail)
    /\ history' = << >>
    /\ runs' = [r \in RunIds |-> FreeRun]
    /\ evt' = [op |-> "Reload", fail |-> fail, arg |-> << >>]
    /\ used' = [used EXCEPT !.reloads = @ + 1]
    /\ UNCHANGED ret

ReloadDelays == {1, DATA_EXPIRY_MS + 1}

TickInputs == {1, DATA_EXPIRY_MS - 1, DATA_EXPIRY_MS, DATA_EXPIRY_MS + 1}

Tick(d) ==
    /\ used.ticks < MaxTicks
    /\ now' = now + d
    /\ used' = [used EXCEPT !.ticks = @ + 1]
    /\ evt' = [op |-> "Tick", fail |-> "none", arg |-> << >>]
    /\ UNCHANGED <<state, history, runs, snapshot, ledger, ret>>

NoEvent == [op |-> "init", fail |-> "none", arg |-> << >>]
Unused == [ticks |-> 0, reloads |-> 0, runs |-> 0, ops |-> 0]

\* the first load of the page, nothing stored
Init ==
    /\ state = StateFrom(Null)
    /\ history = << >>
    /\ runs = [r \in RunIds |-> FreeRun]
    /\ snapshot = NoItem
    /\ ledger = NoItem
    /\ now = 0
    /\ ret = Null
    /\ evt = NoEvent
    /\ used = Unused

EngineFailures == {"none"}

Next ==
    \/ \E r \in RunIds, symbol \in SymbolInputs, apiKeys \in ApiKeyInputs, fail \in EngineFailures :
          used.runs < MaxRuns /\ handleAnalyze(r, symbol, apiKeys, fail)
    \/ \E r \in RunIds, stockData \in StockDataInputs, fail \in EngineFailures :
          FetchResolves(r, stockData, fail)
    \/ \E r \in RunIds, fail \in EngineFailures :
          \E text \in TextInputs(runs[r].ordinal) : StageResolves(r, text, fail)
    \/ \E r \in RunIds, thrown \in ThrownInputs, fail \in EngineFailures :
          AwaitThrows(r, thrown, fail)
    \/ \E fail \in EngineFailures : reset(fail)

\* the workflow engine with overlapping runs: a run abandoned by a reset and its successor
Spec == Init /\ [][Next]_vars

\* the call run r awaits returns or throws
Returns(r) ==
    \/ \E stockData \in StockDataInputs, fail \in EngineFailures :
          FetchResolves(r, stockData, fail)
    \/ \E text \in TextInputs(runs[r].ordinal), fail \in EngineFailures :
          StageResolves(r, text, fail)
    \/ \E thrown \in ThrownInputs, fail \in EngineFailures :
          AwaitThrows(r, thrown, fail)

\* runs of a valid symbol, overlapping, and resets
NextLive ==
    \/ \E r \in RunIds, symbol \in ValidSymbols \cup {SYM_PLAIN}, apiKeys \in ApiKeyInputs, fail \in EngineFailures :
          used.runs < MaxLiveRuns /\ handleAnalyze(r, symbol, apiKeys, fail)
    \/ \E r \in RunIds : Returns(r)
    \/ \E fail \in EngineFailures : reset(fail)

\* the workflow engine when every call a run awaits returns or throws in the end
SpecLive == Init /\ [][NextLive]_vars /\ \A r \in RunIds : WF_vars(Returns(r))

NoRunInFlight == \A q \in RunIds : ~InFlight(q)

\* the whole page, a new run starting only when none is in flight: runs, restoring
\* from the history panel, and reloads of the page
NextApp ==
    \/ \E r \in RunIds, symbol \in SymbolInputs, apiKeys \in ApiKeyInputs, fail \in EngineFailures :
          used.runs < MaxAppRuns /\ NoRunInFlight /\ handleAnalyze(r, symbol, apiKeys, fail)
    \/ \E r \in RunIds, stockData \in StockDataInputs, fail \in EngineFailures :
          FetchResolves(r, stockData, fail)
    \/ \E r \in RunIds, fail \in EngineFailures :
          \E text \in TextInputs(runs[r].ordinal) : StageResolves(r, text, fail)
    \/ \E r \in RunIds, thrown \in ThrownInputs, fail \in EngineFailures :
          AwaitThrows(r, thrown, fail)
    \/ \E fail \in EngineFailures : reset(fail)
    \/ \E fail \in EngineFailures : handleOpenHistory(fail)
    \/ \E i \in 1..HISTORY_LIMIT, fail \in EngineFailures : handleRestoreFromHistory(i, fail)
    \/ \E d \in ReloadDelays, fail \in EngineFailures : Reload(d, fail)

\* a run an earlier visit of the page completed and recorded
EarlierState ==
    [status |-> COMPLETED, currentStep |-> 5, stockSymbol |-> SYM_PLAIN,
     stockDataContext |-> formatStockDataForPrompt("QUOTE"),
     outputs |-> [role \in AgentRole |-> <<"TEXT OF AN EARLIER RUN", MARK_BUY>>],
     agentConfigs |-> CopyOfDefaults,
     apiKeys |-> [juhe |-> "SECRET"],
     error |-> Undefined]

EarlierLedger == saveToHistory(EarlierState, NoItem, 0 - 1, "none")

\* the first load of the page, or a load with the history of an earlier visit
InitApp ==
    /\ state = StateFrom(Null)
    /\ history = << >>
    /\ runs = [r \in RunIds |-> FreeRun]
    /\ snapshot = NoItem
    /\ ledger \in {NoItem, EarlierLedger}
    /\ now = 0
    /\ ret = Null
    /\ evt = NoEvent
    /\ used = Unused

SpecApp == InitApp /\ [][NextApp]_vars

\* one run at a time, of any symbol, from a fresh page or a state restored from the
\* history, the agents reconfigured before, while and after it
NextConfig ==
    \/ \E r \in RunIds, symbol \in AllSymbolInputs, apiKeys \in ApiKeyInputs, fail \in EngineFailures :
          used.runs < MaxAppRuns /\ NoRunInFlight /\ handleAnalyze(r, symbol, apiKeys, fail)
    \/ \E r \in RunIds, stockData \in StockDataInputs, fail \in EngineFailures :
          FetchResolves(r, stockData, fail)
    \/ \E r \in RunIds, fail \in EngineFailures :
          \E text \in TextInputs(runs[r].ordinal) : StageResolves(r, text, fail)
    \/ \E r \in RunIds, thrown \in ThrownInputs, fail \in EngineFailures :
          AwaitThrows(r, thrown, fail)
    \/ \E fail \in EngineFailures : reset(fail)
    \/ \E role \in ConfigRoleInputs, newConfig \in ConfigInputs, fail \in EngineFailures :
          handleConfigChange(role, newConfig, fail)
    \/ \E fail \in EngineFailures : handleOpenHistory(fail)
    \/ \E i \in 1..HISTORY_LIMIT, fail \in EngineFailures : handleRestoreFromHistory(i, fail)

SpecConfig == InitApp /\ [][NextConfig]_vars

(***************************************************************************)
(* The durable state store, called directly                                *)
(***************************************************************************)
RunningState ==
    [status |-> RUNNING, currentStep |-> 2, stockSymbol |-> SYM_PREFIXED,
     stockDataContext |-> formatStockDataForPrompt("QUOTE"),
     outputs |-> [role \in AnalystRoles |-> <<"TEXT">>],
     agentConfigs |-> Spread(CopyOfDefaults, [x \in {GM} |-> "custom"]),
     apiKeys |-> << >>,
     error |-> Undefined]

FailedState ==
    [status |-> ERROR, currentStep |-> 1, stockSymbol |-> SYM_PLAIN,
     stockDataContext |-> formatStockDataForPrompt("QUOTE"),
     outputs |-> << >>,
     agentConfigs |-> CopyOfDefaults,
     apiKeys |-> [juhe |-> "SECRET"],
     error |-> "boom"]

StateInputs == {StateFrom(Null), RunningState, FailedState, EarlierState}

\* a snapshot an earlier release of the page stored
OldSnapshot ==
    JSONstringify([version |-> "v0", timestamp |-> 0,
                   state |-> JSONobject(PersistedFields(EarlierState))])

CallSaveState(st, fail) ==
    /\ snapshot' = saveState(st, snapshot, now, fail)
    /\ evt' = [op |-> "saveState", fail |-> fail, arg |-> st]
    /\ UNCHANGED <<state, history, runs, ledger, now, ret, used>>

\* evt.arg: the item stored when the call was made
CallLoadState(fail) ==
    /\ LET l == loadState(snapshot, now, fail) IN
       /\ snapshot' = l.store
       /\ ret' = l.ret
    /\ evt' = [op |-> "loadState", fail |-> fail, arg |-> snapshot]
    /\ UNCHANGED <<state, history, runs, ledger, now, used>>

CallClearState(fail) ==
    /\ snapshot' = clearState(snapshot, fail)
    /\ evt' = [op |-> "clearState", fail |-> fail, arg |-> snapshot]
    /\ UNCHANGED <<state, history, runs, ledger, now, ret, used>>

CallGetInitialState(fail) ==
    /\ LET seed == getInitialState(snapshot, now, fail) IN
       /\ snapshot' = seed.store
       /\ ret' = seed.ret
    /\ evt' = [op |-> "getInitialState", fail |-> fail, arg |-> snapshot]
    /\ UNCHANGED <<state, history, runs, ledger, now, used>>

InitStore ==
    /\ state = StateFrom(Null)
    /\ history = << >>
    /\ runs = [r \in RunIds |-> FreeRun]
    /\ snapshot \in {NoItem, Malformed, OldSnapshot}
    /\ ledger = NoItem
    /\ now = 0
    /\ ret = Null
    /\ evt = NoEvent
    /\ used = Unused

NextStore ==
    \/ \E st \in StateInputs, fail \in StorageFailures : CallSaveState(st, fail)
    \/ \E fail \in StorageFailures : CallLoadState(fail)
    \/ \E fail \in StorageFailures : CallClearState(fail)
    \/ \E fail \in StorageFailures : CallGetInitialState(fail)
    \/ \E d \in TickInputs : Tick(d)

SpecStore == InitStore /\ [][NextStore]_vars

(***************************************************************************)
(* The history ledger, called directly and through the history panel       *)
(***************************************************************************)
RecordedState(symbol, status) ==
    [status |-> status,
     currentStep |-> IF status = COMPLETED THEN 5 ELSE 2,
     stockSymbol |-> symbol,
     stockDataContext |-> formatStockDataForPrompt("QUOTE"),
     outputs |-> IF status = COMPLETED
                 THEN [role \in AgentRole |-> <<"TEXT", MARK_SELL, MARK_HOLD>>]
                 ELSE [role \in AnalystRoles |-> <<"TEXT">>],
     agentConfigs |-> CopyOfDefaults,
     apiKeys |-> [juhe |-> "SECRET"],
     error |-> Undefined]

RecordInputs ==
    {RecordedState(symbol, status) :
        symbol \in {SYM_PLAIN, SYM_PREFIXED}, status \in {COMPLETED, RUNNING}}

\* the ledger after the completed runs of earlier visits, one a millisecond,
\* the last of them one millisecond before the model's epoch: saveToHistory
\* put each at the front
EarlierRecords(n) ==
    [i \in 1..n |->
        NewItem(RecordedState(IF i % 2 = 0 THEN SYM_PLAIN ELSE SYM_PREFIXED, COMPLETED),
                0 - i)]

AlmostFullLedger == JSONstringify(HistoryStorage(EarlierRecords(HISTORY_LIMIT - 1)))

\* the ledger after a record of a run still running and then one of a completed run
InterruptedLedger ==
    JSONstringify(HistoryStorage(
        <<NewItem(RecordedState(SYM_PLAIN, COMPLETED), 0 - 1),
          NewItem(RecordedState(SYM_PREFIXED, RUNNING), 0 - 2)>>))

\* a ledger an earlier release of the page stored
OldLedger == JSONstringify([version |-> "v0", items |-> << >>])

CallSaveToHistory(st, fail) ==
    /\ used.ops < MaxOps
    /\ ledger' = saveToHistory(st, ledger, now, fail)
    /\ used' = [used EXCEPT !.ops = @ + 1]
    /\ evt' = [op |-> "saveToHistory", fail |-> fail, arg |-> st]
    /\ UNCHANGED <<state, history, runs, snapshot, now, ret>>

InitLedger ==
    /\ state = StateFrom(Null)
    /\ history = << >>
    /\ runs = [r \in RunIds |-> FreeRun]
    /\ snapshot = NoItem
    /\ ledger \in {NoItem, Malformed, OldLedger, InterruptedLedger, AlmostFullLedger}
    /\ now = 0
    /\ ret = Null
    /\ evt = NoEvent
    /\ used = Unused

NextLedger ==
    \/ \E st \in RecordInputs, fail \in StorageFailures : CallSaveToHistory(st, fail)
    \/ \E fail \in StorageFailures : handleOpenHistory(fail)
    \/ \E fail \in StorageFailures : handleDeleteHistory(1, fail)
    \/ \E fail \in StorageFailures : handleDeleteHistory(Len(history), fail)
    \/ \E fail \in StorageFailures : handleClearHistory(fail)
    \/ Tick(1)

SpecLedger == InitLedger /\ [][NextLedger]_vars

(***************************************************************************)
(* The grammar of a stock symbol, as the page accepts it: surrounding      *)
(* blanks and the case of the letters do not count.                        *)
(***************************************************************************)
MarketPrefixes == {<<"s", "h">>, <<"s", "z">>}

InGrammar(code) ==
    \/ /\ Len(code) = 8
       /\ <<code[1], code[2]>> \in MarketPrefixes
       /\ \A i \in 3..8 : code[i] \in Digits
    \/ /\ Len(code) = 6
       /\ \A i \in 1..6 : code[i] \in Digits
       /\ code[1] \in AllowedFirstDigits

Violates(symbol) == ~InGrammar(toLowerCase(trim(symbol)))

(***************************************************************************)
(* Claims                                                                  *)
(***************************************************************************)
Ended(r, how) == runs[r].pc = "done" /\ runs[r].end = how

\* every result the run got is in the published outputs
AllResultsFolded(r) ==
    \A i \in 1..Len(runs[r].results) :
        \A role \in DOMAIN runs[r].results[i] :
            /\ role \in DOMAIN state.outputs
            /\ state.outputs[role] = runs[r].results[i][role]

RolesThrough(k) == UNION {StageRoles(j) : j \in 1..k}

\* C1: a run with a valid symbol whose fetch and four stages all return, and that
\* nothing else disturbs, shows currentStep 0, 1, 2, 3, 4, 5 in this order, ends
\* with status COMPLETED, and the final outputs hold every role the four stages
\* returned, with the text returned.
C1_FullPipeline ==
    \A r \in RunIds :
        (Ended(r, "completed") /\ runs[r].alone) =>
            /\ runs[r].trace = <<0, 1, 2, 3, 4, 5>>
            /\ state.status = COMPLETED
            /\ state.currentStep = 5
            /\ Len(runs[r].results) = 4
            /\ RolesThrough(4) \subseteq DOMAIN state.outputs
            /\ AllResultsFolded(r)

C1_Witness ==
    \E r \in RunIds : Ended(r, "completed") /\ runs[r].alone /\ runs[r].ordinal = 2

\* the thrown value's message if it is an Error, the fallback otherwise
ExpectedMessage(thrown) == IF thrown.isError THEN thrown.message ELSE MSG_UNKNOWN

ThrewAtStage(r) == Ended(r, "thrown") /\ runs[r].await \in 1..4

\* the last step was run r's own
LastStepOf(r) ==
    evt.op \in {"FetchResolves", "StageResolves", "AwaitThrows"} /\ evt.arg = r

CanCallAStage(r) ==
    ENABLED (\E text \in TextInputs(runs[r].ordinal) : StageResolves(r, text, "none"))

\* C2: when the executor of stage k throws, the run has called the executors of
\* stages 1..k and no other and calls none afterwards; the catch block leaves the
\* status ERROR and the error the thrown Error's message (the fallback if the
\* thrown value is not an Error); and if nothing else disturbed the run, the
\* outputs hold exactly the roles of stages 1..k-1, with the texts they returned.
C2_StageFailure ==
    \A r \in RunIds :
        ThrewAtStage(r) =>
            /\ Len(runs[r].calls) = runs[r].await
            /\ \A i \in 1..Len(runs[r].calls) : runs[r].calls[i].stage = i
            /\ ~CanCallAStage(r)
            /\ LastStepOf(r) =>
                  /\ state.status = ERROR
                  /\ state.error = ExpectedMessage(runs[r].thrown)
            /\ runs[r].alone =>
                  /\ DOMAIN state.outputs = RolesThrough(runs[r].await - 1)
                  /\ Len(runs[r].results) = runs[r].await - 1
                  /\ AllResultsFolded(r)

\* a stage-3 throw of a run started from a state restored from the history
C2_Witness ==
    \E r \in RunIds :
        /\ ThrewAtStage(r) /\ runs[r].alone /\ runs[r].await = 3
        /\ LastStepOf(r)
        /\ runs[r].outputs # << >>
        /\ DOMAIN state.outputs = AnalystRoles \cup ManagerRoles

\* C3: handleAnalyze with a symbol that violates the grammar sets the status to
\* ERROR with a non-empty error message, leaves outputs and currentStep as they
\* were, and starts no run: no fetch and no stage executor is called.
C3_InvalidSymbol ==
    [][(evt'.op = "handleAnalyze" /\ Violates(evt'.arg)) =>
          /\ state'.status = ERROR
          /\ state'.error \notin {Undefined, ""}
          /\ state'.outputs = state.outputs
          /\ state'.currentStep = state.currentStep
          /\ runs' = runs]_vars

\* a symbol of six digits of no market, entered over a state restored from the history
C3_Witness ==
    /\ evt.op = "handleAnalyze" /\ Violates(evt.arg)
    /\ state.status = ERROR /\ state.error = MSG_MARKET
    /\ state.outputs # << >>

\* C4: when the fetch of a run resolves to null the run ends there with status
\* ERROR, having called no stage executor, and calls none afterwards.
C4_NoData ==
    \A r \in RunIds :
        Ended(r, "nodata") =>
            /\ runs[r].calls = << >>
            /\ ~CanCallAStage(r)
            /\ LastStepOf(r) => state.status = ERROR

C4_Witness ==
    \E r \in RunIds : Ended(r, "nodata") /\ LastStepOf(r) /\ state.status = ERROR

FetchFailed(r) ==
    /\ runs[r].pc = "done" /\ runs[r].await = 0
    /\ runs[r].end \in {"nodata", "thrown"}

\* C5 as claimed: whenever the fetch fails, by resolving to null or by throwing,
\* the run ends in ERROR with the diagnostic message.
C5_Claimed ==
    \A r \in RunIds :
        (FetchFailed(r) /\ LastStepOf(r)) =>
            state.status = ERROR /\ state.error = MSG_NO_DATA

\* C5 amended: a fetch that resolves to null ends the run in ERROR with the
\* diagnostic message; a fetch that throws ends it in ERROR with the thrown
\* Error's message, or the fallback if the thrown value is not an Error.
C5_FetchFailure ==
    \A r \in RunIds :
        (FetchFailed(r) /\ LastStepOf(r)) =>
            /\ state.status = ERROR
            /\ runs[r].calls = << >>
            /\ state.error = IF runs[r].end = "nodata" THEN MSG_NO_DATA
                              ELSE ExpectedMessage(runs[r].thrown)

C5_Witness ==
    \E r \in RunIds :
        /\ FetchFailed(r) /\ LastStepOf(r) /\ runs[r].end = "thrown"
        /\ state.error = "boom"

\* the records a stored ledger holds, in the order stored
StoredItems(store) ==
    IF store.kind = "json" /\ store.value.version = STORAGE_VERSION
    THEN store.value.items
    ELSE << >>

ItemsOf(s) == {s[i] : i \in DOMAIN s}
Without(s, i) == SubSeq(s, 1, i - 1) \o SubSeq(s, i + 1, Len(s))
CountFor(s, symbol) == Cardinality({i \in DOMAIN s : s[i].stockSymbol = symbol})
Unfinished(item, symbol) == item.stockSymbol = symbol /\ item.status # COMPLETED

\* item is the record of st made at time t
RecordOf(item, st, t) ==
    /\ item.stockSymbol = st.stockSymbol
    /\ item.status = st.status
    /\ item.currentStep = st.currentStep
    /\ item.outputs = st.outputs
    /\ item.timestamp = t

Recorded == evt'.op = "saveToHistory" /\ evt'.fail = "none"

\* C6: a record for a symbol of which the ledger holds an unfinished record takes
\* the place of one such record: the ledger is as long as it was and holds as many
\* entries for the symbol as it did (one stays one), the others untouched.  When
\* every record of the symbol is COMPLETED, or there is none, the new record goes in
\* front and, below the limit of 50, every existing record stays.
C6_OverwriteOrAppend ==
    [][Recorded =>
        LET pre == StoredItems(ledger)
            post == StoredItems(ledger')
            st == evt'.arg
        IN IF \E i \in DOMAIN pre : Unfinished(pre[i], st.stockSymbol)
           THEN /\ Len(post) = Len(pre)
                /\ CountFor(post, st.stockSymbol) = CountFor(pre, st.stockSymbol)
                /\ \E i \in DOMAIN pre :
                      /\ Unfinished(pre[i], st.stockSymbol)
                      /\ \E j \in DOMAIN post :
                            /\ RecordOf(post[j], st, now)
                            /\ ItemsOf(Without(post, j)) = ItemsOf(Without(pre, i))
           ELSE /\ post # << >>
                /\ RecordOf(post[1], st, now)
                /\ ItemsOf(Tail(post)) \subseteq ItemsOf(pre)
                /\ Len(pre) < HISTORY_LIMIT =>
                      /\ Len(post) = Len(pre) + 1
                      /\ CountFor(post, st.stockSymbol) = CountFor(pre, st.stockSymbol) + 1
                      /\ ItemsOf(Tail(post)) = ItemsOf(pre)]_vars

\* the unfinished record, stored behind a completed one, was overwritten where it
\* was: the more recent record is the second
C6_Witness ==
    /\ evt.op = "saveToHistory" /\ evt.fail = "none"
    /\ Len(StoredItems(ledger)) = 2
    /\ StoredItems(ledger)[2].stockSymbol = evt.arg.stockSymbol
    /\ StoredItems(ledger)[2].timestamp > StoredItems(ledger)[1].timestamp
    /\ CountFor(StoredItems(ledger), evt.arg.stockSymbol) = 1

Oldest(s, i) == \A k \in DOMAIN s : s[k].timestamp >= s[i].timestamp

\* C7: whatever is recorded, deleted or cleared, the stored ledger holds at most 50
\* records; and a record that goes in as a new entry when the ledger holds 50 is
\* kept, in front, while the record that goes is one of the oldest.
C7_AtMostFifty ==
    [][/\ Len(StoredItems(ledger')) <= HISTORY_LIMIT
       /\ (/\ Recorded
           /\ Len(StoredItems(ledger)) = HISTORY_LIMIT
           /\ \A i \in DOMAIN StoredItems(ledger) :
                 ~Unfinished(StoredItems(ledger)[i], evt'.arg.stockSymbol))
          => LET pre == StoredItems(ledger)
                 post == StoredItems(ledger')
             IN /\ Len(post) = HISTORY_LIMIT
                /\ RecordOf(post[1], evt'.arg, now)
                /\ \E i \in DOMAIN pre :
                      /\ Oldest(pre, i)
                      /\ ItemsOf(Tail(post)) = ItemsOf(Without(pre, i))]_vars

\* 50 records, the last recorded in front, and the oldest of the earlier visits gone
C7_Witness ==
    /\ evt.op = "saveToHistory" /\ evt.fail = "none"
    /\ Len(StoredItems(ledger)) = HISTORY_LIMIT
    /\ RecordOf(StoredItems(ledger)[1], evt.arg, now)
    /\ \A i \in DOMAIN StoredItems(ledger) :
          StoredItems(ledger)[i].timestamp > 0 - (HISTORY_LIMIT - 1)

\* loadState found a well-formed snapshot of the current version (evt.arg)
LoadedCurrent ==
    /\ evt.op = "loadState" /\ evt.fail # "denied"
    /\ evt.arg.kind = "json"
    /\ evt.arg.value.version = STORAGE_VERSION

AgeLoaded == now - evt.arg.value.timestamp

\* C8 as claimed: loadState returns nothing when the snapshot's age is the 30
\* minutes or more, and the persisted state when it is less.
C8_Claimed ==
    LoadedCurrent =>
        IF AgeLoaded >= DATA_EXPIRY_MS THEN ret = Null
        ELSE ret = evt.arg.value.state

\* C8 amended: loadState returns nothing when the snapshot's age is more than the
\* 30 minutes, and the persisted state when it is the 30 minutes or less.
C8_Expiry ==
    LoadedCurrent =>
        IF AgeLoaded > DATA_EXPIRY_MS THEN ret = Null
        ELSE ret = evt.arg.value.state

\* a snapshot of exactly 30 minutes is returned
C8_Witness ==
    /\ LoadedCurrent
    /\ AgeLoaded = DATA_EXPIRY_MS
    /\ ret = evt.arg.value.state
    /\ ret # Null

RoundTripFields ==
    {"status", "currentStep", "stockSymbol", "stockDataContext", "outputs", "agentConfigs"}

\* C9: a saveState that wrote, followed at once by a loadState, returns a state
\* equal to the one saved on status, currentStep, stockSymbol, stockDataContext,
\* outputs and agentConfigs, with no apiKeys and no error.
C9_RoundTrip ==
    [][(/\ evt.op = "saveState" /\ evt.fail = "none"
        /\ evt'.op = "loadState" /\ evt'.fail # "denied")
       => /\ ret' # Null
          /\ DOMAIN ret' = RoundTripFields
          /\ \A f \in RoundTripFields : ret'[f] = evt.arg[f]]_vars

\* the state loaded is the failed state, saved at this instant with its credentials
\* and its error
C9_Witness ==
    /\ evt.op = "loadState" /\ evt.fail = "none"
    /\ snapshot.kind = "json" /\ snapshot.value.timestamp = now
    /\ ret # Null
    /\ ret = [f \in RoundTripFields |-> FailedState[f]]

Secrets == {"apiKeys", "error"}

\* C10: neither the stored snapshot nor any record of the history, stored or shown
\* in the panel, has the apiKeys or the error of a state, and the state the page is
\* seeded with on load, or on a restore from the history, has empty apiKeys.
C10_NoSecretsStored ==
    /\ (snapshot.kind = "json") =>
          /\ DOMAIN snapshot.value \cap Secrets = {}
          /\ DOMAIN snapshot.value.state \cap Secrets = {}
    /\ \A i \in DOMAIN StoredItems(ledger) : DOMAIN StoredItems(ledger)[i] \cap Secrets = {}
    /\ \A i \in DOMAIN history : DOMAIN history[i] \cap Secrets = {}
    /\ evt.op \in {"Reload", "handleRestoreFromHistory"} => state.apiKeys = << >>

\* the page was loaded from the snapshot of a run that had credentials and failed
C10_Witness ==
    /\ evt.op = "Reload"
    /\ state.status = ERROR
    /\ state.currentStep = 1
    /\ state.apiKeys = << >>
    /\ snapshot.kind = "json"
    /\ StoredItems(ledger) # << >>

\* C11: reset, from whatever status the page shows it in, leaves status IDLE,
\* currentStep 0, an empty stockSymbol, stockDataContext and outputs and no error,
\* leaves agentConfigs and apiKeys as they were, and leaves no snapshot stored.
C11_Reset ==
    [][(evt'.op = "reset" /\ evt'.fail # "denied") =>
          /\ state'.status = IDLE
          /\ state'.currentStep = 0
          /\ state'.stockSymbol = << >>
          /\ state'.stockDataContext = << >>
          /\ state'.outputs = << >>
          /\ state'.error = Undefined
          /\ state'.agentConfigs = state.agentConfigs
          /\ state'.apiKeys = state.apiKeys
          /\ snapshot'.kind = "none"]_vars

\* a reset that kept a customised agent and the credentials of the run
C11_Witness ==
    /\ evt.op = "reset"
    /\ state.status = IDLE
    /\ state.agentConfigs[GM] = "custom"
    /\ state.apiKeys # << >>
    /\ snapshot.kind = "none"

\* C12 as claimed: once the status is COMPLETED or ERROR no step but a reset changes
\* it: no callback of a fetch or a stage, and no other operation.
C12_Claimed ==
    [][(state.status \in {COMPLETED, ERROR} /\ evt'.op # "reset") =>
          state'.status = state.status]_vars

\* C13 as claimed: no step lowers currentStep, but a reset or the start of a run,
\* which set it to 0.
C13_Claimed ==
    [][\/ state'.currentStep >= state.currentStep
       \/ evt'.op \in {"reset", "handleAnalyze"} /\ state'.currentStep = 0]_vars

Listed == evt'.op = "handleOpenHistory" /\ evt'.fail = "none"

MismatchedLedger(store) == store.kind = "json" /\ store.value.version # STORAGE_VERSION
ValidLedger(store) == store.kind = "json" /\ store.value.version = STORAGE_VERSION

Descending(s) ==
    \A i \in DOMAIN s : \A j \in DOMAIN s : i < j => s[i].timestamp >= s[j].timestamp

\* C14 as claimed: getHistory on a ledger of another version, or a malformed one,
\* removes the stored ledger and returns nothing; on a valid ledger it returns all
\* the records, the most recent first.
C14_Claimed ==
    [][Listed =>
        /\ (MismatchedLedger(ledger) \/ ledger.kind = "malformed") =>
              ledger'.kind = "none" /\ history' = << >>
        /\ ValidLedger(ledger) =>
              /\ Len(history') = Len(ledger.value.items)
              /\ ItemsOf(history') = ItemsOf(ledger.value.items)
              /\ Descending(history')]_vars

\* C14 amended: getHistory on a ledger of another version removes the stored ledger
\* and returns nothing; on a malformed ledger it returns nothing and leaves what is
\* stored; on a valid ledger it returns all the records, the most recent first, and
\* leaves what is stored.
C14_List ==
    [][Listed =>
        /\ MismatchedLedger(ledger) => ledger'.kind = "none" /\ history' = << >>
        /\ ledger.kind = "malformed" => ledger' = ledger /\ history' = << >>
        /\ ledger.kind = "none" => ledger' = ledger /\ history' = << >>
        /\ ValidLedger(ledger) =>
              /\ ledger' = ledger
              /\ Len(history') = Len(ledger.value.items)
              /\ ItemsOf(history') = ItemsOf(ledger.value.items)
              /\ Descending(history')]_vars

\* the list of a ledger stored out of order: an unfinished record overwritten
\* behind a completed one comes first
C14_Witness ==
    /\ evt.op = "handleOpenHistory" /\ evt.fail = "none"
    /\ Len(StoredItems(ledger)) = 2
    /\ StoredItems(ledger)[2].timestamp > StoredItems(ledger)[1].timestamp
    /\ history = <<StoredItems(ledger)[2], StoredItems(ledger)[1]>>

IntoCompleted == state.status # COMPLETED /\ state'.status = COMPLETED

\* the stored ledger holds a record of the state st made at time t
HoldsRecordOf(store, st, t) ==
    \E i \in DOMAIN StoredItems(store) : RecordOf(StoredItems(store)[i], st, t)

RunSteps == {"FetchResolves", "StageResolves", "AwaitThrows"}

\* run r has just ended, and left the status COMPLETED or ERROR
EndedTerminal(r) ==
    /\ runs[r].pc = "done"
    /\ LastStepOf(r)
    /\ state.status \in {COMPLETED, ERROR}

\* C16: if every call a run awaits returns or throws in the end, a run started
\* with a valid symbol ends, and the step that ends it leaves the status COMPLETED
\* or ERROR; and nothing takes a run out of flight but the return or the throw of
\* a call of its own: a reset or another start does not cancel it.
C16_RunsEnd ==
    /\ \A r \in RunIds : InFlight(r) ~> EndedTerminal(r)
    /\ [][\A r \in RunIds :
            (InFlight(r) /\ ~InFlight(r)') =>
                (evt'.op \in RunSteps /\ evt'.arg = r /\ runs'[r].pc = "done")]_vars

\* a run a reset abandoned has ended all the same, and left the status COMPLETED
C16_Witness ==
    \E r \in RunIds :
        /\ EndedTerminal(r)
        /\ ~runs[r].alone
        /\ runs[r].end = "completed"

\* the results of the first n stages of run r, together
RECURSIVE ResultsThrough(_, _)
ResultsThrough(r, n) ==
    IF n = 0 THEN << >> ELSE Spread(ResultsThrough(r, n - 1), runs[r].results[n])

\* C17 as claimed: the outputs passed to the executor of stage 2, 3 or 4 are the
\* results of the run's earlier stages together and nothing else, and so, when the
\* stage is called in a run nothing disturbed, the outputs of the published state.
C17_Claimed ==
    \A r \in RunIds :
        \A k \in DOMAIN runs[r].calls :
            k >= 2 =>
                /\ runs[r].calls[k].outputs = ResultsThrough(r, k - 1)
                /\ (InFlight(r) /\ LastStepOf(r) /\ runs[r].alone /\ runs[r].await = k) =>
                      runs[r].calls[k].outputs = state.outputs

\* the step calls the executor of the next stage of run r
Dispatches(r) ==
    /\ runs[r].pc = "await" /\ runs'[r].pc = "await"
    /\ Len(runs'[r].calls) = Len(runs[r].calls) + 1

\* C18: within one run the executor of stage N+1 is called only in a step that
\* has folded the results of stage N into the outputs of the state and advanced
\* currentStep past stage N, and at most one stage call of a run is outstanding
\* at a time, the calls being those of stages 1, 2, 3, 4 in this order.
C18_InOrder ==
    [][\A r \in RunIds :
          /\ Dispatches(r) =>
                LET k == Len(runs'[r].calls) IN
                /\ runs'[r].calls[k].stage = k
                /\ Len(runs'[r].results) = k - 1
                /\ k >= 2 =>
                      /\ Len(runs[r].results) = k - 2
                      /\ \A role \in StageRoles(k - 1) :
                            /\ role \in DOMAIN state'.outputs
                            /\ state'.outputs[role] = runs'[r].results[k - 1][role]
                      /\ state'.currentStep = k
          /\ Len(runs'[r].calls) - Len(runs'[r].results) \in {0, 1}
          /\ (runs'[r].pc = "await" /\ runs'[r].await >= 1) =>
                Len(runs'[r].calls) = runs'[r].await
      ]_vars

\* a run has had stages 1, 2 and 3 folded one after another and awaits stage 4
C18_Witness ==
    \E r \in RunIds :
        /\ InFlight(r) /\ runs[r].await = 4
        /\ Len(runs[r].calls) = 4 /\ Len(runs[r].results) = 3
        /\ state.currentStep = 4
        /\ RolesThrough(3) \subseteq DOMAIN state.outputs

\* the state held by the stored snapshot agrees with st on the six fields saved
SnapshotHolds(store, st) ==
    /\ store.kind = "json"
    /\ DOMAIN store.value.state = RoundTripFields
    /\ \A f \in RoundTripFields : store.value.state[f] = st[f]

\* C19: after every change of the state that leaves a status other than IDLE
\* the stored snapshot holds the state on status, currentStep, stockSymbol,
\* stockDataContext, outputs and agentConfigs (the writes here all succeed);
\* a change of the state that leaves status IDLE writes no snapshot: the stored
\* item is the one before, or none.
C19_Saved ==
    [][state' # state =>
          /\ state'.status # IDLE => SnapshotHolds(snapshot', state')
          /\ state'.status = IDLE => (snapshot' = snapshot \/ snapshot' = NoItem)
      ]_vars

\* stage 2 of a run has just been folded and the snapshot holds the state with it;
\* the snapshot before held the state of step 2
C19_Witness ==
    /\ evt.op = "StageResolves"
    /\ state.status = RUNNING /\ state.currentStep = 3
    /\ RolesThrough(2) \subseteq DOMAIN state.outputs
    /\ SnapshotHolds(snapshot, state)
    /\ snapshot.value.timestamp = now

\* the item loadState found has another version than the current one
LoadedOtherVersion ==
    evt.arg.kind = "json" /\ evt.arg.value.version # STORAGE_VERSION

\* the item loadState found has the current version and is older than the 30 minutes
LoadedTooOld ==
    /\ evt.arg.kind = "json" /\ evt.arg.value.version = STORAGE_VERSION
    /\ now - evt.arg.value.timestamp > DATA_EXPIRY_MS

\* C20: loadState removes the stored snapshot exactly when it returns nothing
\* because the version differs or because the snapshot is expired; when it
\* returns the state, when nothing is stored, when the content cannot be parsed
\* and when the storage cannot be read, the stored item is the one before.
C20_LoadRemoves ==
    evt.op = "loadState" =>
        IF evt.fail # "denied" /\ (LoadedOtherVersion \/ LoadedTooOld)
        THEN snapshot = NoItem /\ ret = Null
        ELSE /\ snapshot = evt.arg
             /\ (evt.fail # "denied" /\ evt.arg.kind = "json") => ret = evt.arg.value.state
             /\ (evt.fail = "denied" \/ evt.arg.kind # "json") => ret = Null

\* a snapshot of the current version, written more than 30 minutes ago, was
\* loaded: nothing returned, nothing stored any more
C20_Witness ==
    /\ evt.op = "loadState" /\ evt.fail # "denied"
    /\ LoadedTooOld
    /\ snapshot = NoItem /\ ret = Null

(***************************************************************************)
(* The page with a storage that may fail at any step: one run, reset, the  *)
(* history panel, and reloads after the visit's runs                       *)
(***************************************************************************)
MaxFailRuns == 1

\* one symbol the page accepts and one it rejects; one value thrown
FailSymbolInputs == {SYM_PREFIXED, SYM_SHORT}
FailThrownInputs == {[isError |-> TRUE, message |-> "boom"]}

NextFail ==
    \/ \E r \in RunIds, symbol \in FailSymbolInputs, apiKeys \in ApiKeyInputs, fail \in StorageFailures :
          used.runs < MaxFailRuns /\ NoRunInFlight /\ handleAnalyze(r, symbol, apiKeys, fail)
    \/ \E r \in RunIds, stockData \in StockDataInputs, fail \in StorageFailures :
          FetchResolves(r, stockData, fail)
    \/ \E r \in RunIds, fail \in StorageFailures :
          \E text \in TextInputs(runs[r].ordinal) : StageResolves(r, text, fail)
    \/ \E r \in RunIds, thrown \in FailThrownInputs, fail \in StorageFailures :
          AwaitThrows(r, thrown, fail)
    \/ \E fail \in StorageFailures : reset(fail)
    \/ \E fail \in StorageFailures : handleOpenHistory(fail)
    \/ \E fail \in StorageFailures : handleDeleteHistory(1, fail)
    \/ \E fail \in StorageFailures : handleClearHistory(fail)
    \/ \E fail \in StorageFailures :
          used.runs = MaxFailRuns /\ NoRunInFlight /\ Reload(1, fail)

InitFail ==
    /\ state = StateFrom(Null)
    /\ history = << >>
    /\ runs = [r \in RunIds |-> FreeRun]
    /\ snapshot = NoItem
    /\ ledger \in {NoItem, OldLedger, EarlierLedger}
    /\ now = 0
    /\ ret = Null
    /\ evt = NoEvent
    /\ used = Unused

SpecFail == InitFail /\ [][NextFail]_vars

\* the state the step's handler publishes when the storage works
StateAsWithoutFailure ==
    LET r == evt'.arg IN
    CASE evt'.op \in {"handleOpenHistory", "handleDeleteHistory", "handleClearHistory"} ->
            state' = state
      [] evt'.op = "reset" -> state' = ResetState(state)
      [] evt'.op = "Reload" ->
            state' = IF evt'.fail = "denied" THEN StateFrom(Null)
                     ELSE getInitialState(snapshot, now', "none").ret
      [] evt'.op = "handleAnalyze" ->
            LET validation == validateStockCode(evt'.arg) IN
            state' = IF validation.valid
                     THEN Started(state, evt'.arg, state'.apiKeys)
                     ELSE ValidationFailed(state, validation.message)
      [] evt'.op = "FetchResolves" ->
            state' = IF runs'[r].end = "nodata" THEN NoData(state)
                     ELSE Fetched(state, runs'[r].stockDataContext)
      [] evt'.op = "StageResolves" ->
            state' = StageDone(state, runs[r].await,
                               runs'[r].results[Len(runs'[r].results)])
      [] evt'.op = "AwaitThrows" -> state' = Caught(state, runs'[r].thrown)
      [] OTHER -> FALSE

\* the step calls saveToHistory or deleteFromHistory
RecordsOrDeletes ==
    \/ evt'.op = "handleDeleteHistory"
    \/ /\ evt'.op # "Reload"
       /\ state.status # state'.status /\ state'.status = COMPLETED /\ state'.stockSymbol # << >>
    \/ evt'.op = "Reload" /\ state'.status = COMPLETED /\ state'.stockSymbol # << >>

OtherVersion(store) == store.kind = "json" /\ store.value.version # STORAGE_VERSION

\* C21 as claimed: a step in which the storage fails publishes the state it
\* publishes when the storage works, and a record or delete that failed leaves
\* the stored ledger as it was.
C21_Claimed ==
    [][evt'.fail # "none" =>
          /\ StateAsWithoutFailure
          /\ RecordsOrDeletes => ledger' = ledger
      ]_vars

\* C21 amended: a step in which the storage fails publishes the state it
\* publishes when the storage works (nothing is raised into the handler), and
\* a record or delete that failed leaves the stored ledger as it was, unless
\* the ledger stored is of another version: that one is removed by the listing
\* the record and the delete begin with.
C21_Swallowed ==
    [][evt'.fail # "none" =>
          /\ StateAsWithoutFailure
          /\ RecordsOrDeletes =>
                \/ ledger' = ledger
                \/ OtherVersion(ledger) /\ evt'.fail = "quota" /\ ledger' = NoItem
      ]_vars

\* a run completed while the storage was full: the state is COMPLETED with the
\* ten outputs, the ledger still is the one of the earlier visit, and the snapshot
\* was not written
C21_Witness ==
    /\ evt.op = "StageResolves" /\ evt.fail = "quota"
    /\ state.status = COMPLETED /\ state.currentStep = 5
    /\ DOMAIN state.outputs = AgentRole
    /\ ledger = EarlierLedger
    /\ ~SnapshotHolds(snapshot, state)

\* C22 as claimed: each stage executor is given the agentConfigs the state holds
\* at the moment the stage is called, so that a replacement made while the run is
\* in flight is seen by the stages called after it.
C22_Claimed ==
    [][\A r \in RunIds :
          Dispatches(r) =>
              runs'[r].calls[Len(runs'[r].calls)].agentConfigs = state.agentConfigs
      ]_vars

\* C23 as claimed: the state carries an error message only while its status is
\* ERROR.
C23_Claimed == state.error # Undefined => state.status = ERROR

\* run r was started after a reset left another run in flight, and there was no
\* reset since: the state still holds the symbol the start stored
SuccessorOfAbandoned(r) ==
    /\ runs[r].pc # "free" /\ ~runs[r].alone
    /\ state.stockSymbol # << >>
    /\ \A q \in RunIds : runs[q].pc # "free" => runs[q].ordinal <= runs[r].ordinal
    /\ \E q \in RunIds : runs[q].pc # "free" /\ runs[q].ordinal < runs[r].ordinal

\* C24 as claimed: once a run has been started after a reset that left a run in
\* flight, the outputs of the state hold nothing but the new run's own stage
\* results, and the status and currentStep of the state are changed only by the
\* new run's own steps.
C24_Claimed ==
    /\ [](\A r \in RunIds :
            SuccessorOfAbandoned(r) =>
                \A role \in DOMAIN state.outputs :
                    \E k \in DOMAIN runs[r].results :
                        /\ role \in DOMAIN runs[r].results[k]
                        /\ state.outputs[role] = runs[r].results[k][role])
    /\ [][\A r \in RunIds :
            (SuccessorOfAbandoned(r) /\ SuccessorOfAbandoned(r)'
             /\ (state'.status # state.status \/ state'.currentStep # state.currentStep))
                => evt'.arg = r
        ]_vars

\* the records the stored ledger holds of the n-th run of the visit
RecordsOfRun(n) ==
    LET items == StoredItems(ledger) IN
    {i \in DOMAIN items :
        /\ items[i].status = COMPLETED
        /\ GM \in DOMAIN items[i].outputs
        /\ items[i].outputs[GM] = TextOfRun(n)}

\* C25 as claimed: the ledger holds no more than one record of a run that
\* completed, however often the page is loaded again from the snapshot.
C25_Claimed == \A n \in 1..MaxAppRuns : Cardinality(RecordsOfRun(n)) <= 1

\* the symbols of which the stored ledger holds a record
SymbolsStored == {item.stockSymbol : item \in ItemsOf(StoredItems(ledger))}

UnfinishedFor(symbol) ==
    LET items == StoredItems(ledger) IN
    {i \in DOMAIN items : Unfinished(items[i], symbol)}

\* C26: after any sequence of records, deletes and clears the stored ledger holds,
\* for every symbol, at most one record whose status is not COMPLETED.
C26_OneUnfinished ==
    \A symbol \in SymbolsStored : Cardinality(UnfinishedFor(symbol)) <= 1

\* the second call on the ledger recorded a run still running: the ledger holds
\* one record, the one just made, the only unfinished one of its symbol
C26_Witness ==
    /\ evt.op = "saveToHistory" /\ evt.fail = "none" /\ evt.arg.status = RUNNING
    /\ used.ops = 2 /\ used.ticks = 1
    /\ Len(StoredItems(ledger)) = 1
    /\ Cardinality(UnfinishedFor(evt.arg.stockSymbol)) = 1
    /\ StoredItems(ledger)[1].timestamp = now

\* C27 as claimed: while the status is FETCHING_DATA or RUNNING an invocation of
\* handleAnalyze is in flight, its fetch or a stage call pending, also in a state
\* the page was loaded with from the snapshot.
C27_Claimed ==
    state.status \in {FETCHING_DATA, RUNNING} => \E r \in RunIds : InFlight(r)

====
